---- MODULE Spec2Model ----
(***************************************************************************)
(* oneiromancer: the request/response cycle with the Ollama endpoint       *)
(* (src/src/ollama.rs, analyze_code in src/src/lib.rs), the configuration  *)
(* (src/src/oneiromancer.rs, src/src/cli.rs) and run() of src/src/lib.rs   *)
(* with its variable renaming loop.                                        *)
(*                                                                         *)
(* Strings are sequences of one-character strings.                         *)
(***************************************************************************)
EXTENDS Naturals, Integers, Sequences, FiniteSets, TLC

VARIABLES
    pc,               \* position of run / analyze_code
    file,             \* the input file at `filepath`
    outfile,          \* the file at `outfilepath`: "absent" or its content
    env,              \* the process environment: OLLAMA_BASEURL, OLLAMA_MODEL
    config,           \* the OneiromancerConfig in use
    pseudo_code,      \* run's pseudo_code buffer
    requests,         \* the HTTP requests issued so far, each with what it came to
    response,         \* the OllamaResponse of send, or NoValue
    analysis_results, \* the OneiromancerResults of parse, or NoValue
    function_description,
    todo,             \* the part of variables() the for loop has yet to visit
    err,              \* the error run returned, or NoValue
    explicit          \* the values the caller has given for baseurl and model

vars == <<pc, file, outfile, env, config, pseudo_code, requests, response,
          analysis_results, function_description, todo, err, explicit>>

NoValue == [none |-> TRUE]

----------------------------------------------------------------------------
(* Bounds of the model                                                      *)

MaxText == 3      \* longest pseudo-code text of the rewrite specification
MaxVars == 2      \* longest list of renaming suggestions
MaxFile == 2      \* longest input file content of the run specification

\* characters the texts are drawn from
TextChars == {"a", "b", "."}

\* Strings over chars of length at most n
RECURSIVE StringsUpTo(_, _)
StringsUpTo(chars, n) ==
    IF n = 0 THEN {<<>>}
    ELSE LET shorter == StringsUpTo(chars, n - 1)
         IN  shorter \cup {Append(s, c) : s \in {t \in shorter : Len(t) = n - 1}, c \in chars}

\* original_name values drawn by the model: identifiers and names holding
\* pattern syntax (".", "(")
OriginalNames == { <<"a">>, <<"b">>, <<"a", "b">>, <<".">>, <<"(">> }

\* new_name values drawn by the model: identifiers and a name holding
\* replacement syntax ("$")
NewNames == { <<"b">>, <<"a", "b">>, <<"$", "a">> }

----------------------------------------------------------------------------
(* Characters: the classes of the regex crate                               *)

\* \w: letters, digits and underscore
IsWordChar(c) == c \in {"a", "b", "c", "0", "_"}

----------------------------------------------------------------------------
(* The regex crate as run uses it: Regex::new and Regex::replace_all        *)

\* mutant of PatternSource: the closing \b is left out
PatternSourceOpenEnd(original_name) == <<"\\b">> \o original_name

\* format!(r"\b{original_name}\b"): the name is pasted into the pattern as is
PatternSource(original_name) == <<"\\b">> \o original_name \o <<"\\b">>

\* the item of the pattern language one token of the pattern text stands for
PatternItem(tok) ==
    CASE tok = "\\b" -> [kind |-> "WordBoundary"]
      [] tok = "."   -> [kind |-> "AnyChar"]
      [] tok = "$"   -> [kind |-> "EndText"]
      [] OTHER       -> [kind |-> "Literal", c |-> tok]

\* Regex::new: a "(" that nothing closes is a syntax error; every other
\* token of the model's alphabet parses
RegexNew(source) ==
    IF \E i \in 1..Len(source) : source[i] = "("
    THEN [ok |-> FALSE, items |-> <<>>]
    ELSE [ok |-> TRUE, items |-> [i \in 1..Len(source) |-> PatternItem(source[i])]]

\* \b at offset p of text (0 <= p <= Len(text)): exactly one of the
\* characters before and after p is a word character
IsWordBoundary(text, p) ==
    LET before == p > 0 /\ IsWordChar(text[p])
        after  == p < Len(text) /\ IsWordChar(text[p + 1])
    IN  before # after

\* offset at which the items k.. of the pattern end when matched at offset
\* p of text, or -1 when they do not match there
RECURSIVE MatchFrom(_, _, _, _)
MatchFrom(items, k, text, p) ==
    IF k > Len(items) THEN p
    ELSE LET it == items[k] IN
         CASE it.kind = "WordBoundary" ->
                IF IsWordBoundary(text, p) THEN MatchFrom(items, k + 1, text, p) ELSE -1
           [] it.kind = "EndText" ->
                IF p = Len(text) THEN MatchFrom(items, k + 1, text, p) ELSE -1
           [] it.kind = "AnyChar" ->
                IF p < Len(text) /\ text[p + 1] # "\n"
                THEN MatchFrom(items, k + 1, text, p + 1) ELSE -1
           [] OTHER ->
                IF p < Len(text) /\ text[p + 1] = it.c
                THEN MatchFrom(items, k + 1, text, p + 1) ELSE -1

\* the capture reference at the head of s (s follows a "$"): the longest
\* run of [0-9A-Za-z_]
RECURSIVE CapRefLen(_)
CapRefLen(s) ==
    IF s # <<>> /\ IsWordChar(Head(s)) THEN 1 + CapRefLen(Tail(s)) ELSE 0

\* Replacer for &str: the replacement is a template; "$$" is a dollar,
\* "$name" the capture group of that name or number (group 0 is the whole
\* match, the pattern of run has no other group, a missing group is empty),
\* any other "$" stands for itself
RECURSIVE Expand(_, _)
Expand(replacement, matched) ==
    IF replacement = <<>> THEN <<>>
    ELSE IF Head(replacement) # "$"
    THEN <<Head(replacement)>> \o Expand(Tail(replacement), matched)
    ELSE LET rest == Tail(replacement)
             n    == CapRefLen(rest)
             ref  == SubSeq(rest, 1, n)
         IN  IF rest # <<>> /\ Head(rest) = "$"
             THEN <<"$">> \o Expand(Tail(rest), matched)
             ELSE IF n = 0
             THEN <<"$">> \o Expand(rest, matched)
             ELSE (IF \A i \in 1..n : ref[i] = "0" THEN matched ELSE <<>>)
                  \o Expand(SubSeq(rest, n + 1, Len(rest)), matched)

\* the matches Regex::captures_iter finds from offset i on: left to right
\* and not overlapping; an empty match at the end of the match before it
\* (last) is skipped
RECURSIVE FindFrom(_, _, _, _)
FindFrom(items, text, i, last) ==
    LET e   == MatchFrom(items, 1, text, i)
        hit == e # -1 /\ ~(e = i /\ e = last)
    IN  IF hit /\ e > i
        THEN <<[start |-> i, end |-> e]>> \o FindFrom(items, text, e, e)
        ELSE (IF hit THEN <<[start |-> i, end |-> e]>> ELSE <<>>)
             \o (IF i < Len(text)
                 THEN FindFrom(items, text, i + 1, IF hit THEN e ELSE last)
                 ELSE <<>>)

FindIter(re, text) == FindFrom(re.items, text, 0, -1)

\* the loop of replace_all: the text between the matches is copied, each
\* match gives way to the expanded replacement
RECURSIVE ReplaceSpans(_, _, _, _, _)
ReplaceSpans(text, spans, k, last_match, replacement) ==
    IF k > Len(spans) THEN SubSeq(text, last_match + 1, Len(text))
    ELSE SubSeq(text, last_match + 1, spans[k].start)
         \o Expand(replacement, SubSeq(text, spans[k].start + 1, spans[k].end))
         \o ReplaceSpans(text, spans, k + 1, spans[k].end, replacement)

\* Regex::replace_all
ReplaceAll(re, text, replacement) ==
    ReplaceSpans(text, FindIter(re, text), 1, 0, replacement)

----------------------------------------------------------------------------
(* Configuration: oneiromancer.rs, cli.rs                                   *)

\* URLs are sequences of tokens, each "/" at the end a token of its own
OLLAMA_BASEURL == <<"http://127.0.0.1:11434">>
OLLAMA_MODEL == <<"aidapal">>

Unset == <<"unset">>

\* values the model gives to the environment variable OLLAMA_BASEURL
EnvBaseurls ==
    { Unset, <<"http://127.0.0.1:11434", "/">>, <<"http://127.0.0.1:6666">>, <<>>, <<"not a url">> }

\* values the model gives to the environment variable OLLAMA_MODEL
EnvModels == { Unset, <<"doesntexist">> }

\* values the model passes to with_baseurl / --base-url and with_model / --model
ExplicitBaseurls ==
    { <<"http://127.0.0.1:11434">>, <<"http://127.0.0.1:6666">>, <<"http://10.0.0.1:11434">> }
ExplicitModels == { <<"aidapal">>, <<"custom">>, <<"doesntexist">> }

\* mutant of EnvOr: the environment variable is not looked at
EnvIgnored(value, default) == default

\* env::var(..).unwrap_or_else(|_| default)
EnvOr(value, default) == IF value = Unset THEN default ELSE value

\* impl Default for OneiromancerConfig
ConfigDefault(e) ==
    [baseurl |-> EnvOr(e.OLLAMA_BASEURL, OLLAMA_BASEURL),
     model   |-> EnvOr(e.OLLAMA_MODEL, OLLAMA_MODEL)]

\* OneiromancerConfig::with_baseurl, with_model
ConfigWithBaseurl(c, baseurl) == [c EXCEPT !.baseurl = baseurl]
ConfigWithModel(c, model) == [c EXCEPT !.model = model]

\* clap: #[arg(short, long, env = .., default_value = ..)]; arg is the
\* value given on the command line, or Unset
ArgOrEnvOr(arg, value, default) == IF arg # Unset THEN arg ELSE EnvOr(value, default)

\* Args::parse
ArgsParse(e, base_url, model) ==
    [baseurl |-> ArgOrEnvOr(base_url, e.OLLAMA_BASEURL, OLLAMA_BASEURL),
     model   |-> ArgOrEnvOr(model, e.OLLAMA_MODEL, OLLAMA_MODEL)]

----------------------------------------------------------------------------
(* The Ollama API: ollama.rs                                                *)

\* OllamaRequest::new
OllamaRequestNew(model, prompt) ==
    [model |-> model, prompt |-> prompt, stream |-> FALSE, format |-> "json"]

\* baseurl.trim_end_matches('/')
RECURSIVE TrimEndSlashes(_)
TrimEndSlashes(baseurl) ==
    IF baseurl # <<>> /\ baseurl[Len(baseurl)] = "/"
    THEN TrimEndSlashes(SubSeq(baseurl, 1, Len(baseurl) - 1))
    ELSE baseurl

\* format!("{}{}", baseurl.trim_end_matches('/'), "/api/generate")
GenerateUrl(baseurl) == TrimEndSlashes(baseurl) \o <<"/api/generate">>

FunctionName == <<"f">>
Comment == <<"c">>

\* renaming suggestions: Variable
Suggestions(originals, news) == [original_name : originals, new_name : news]

RECURSIVE ListsUpTo(_, _)
ListsUpTo(S, n) ==
    IF n = 0 THEN {<<>>}
    ELSE LET shorter == ListsUpTo(S, n - 1)
         IN  shorter \cup {Append(l, x) : l \in {t \in shorter : Len(t) = n - 1}, x \in S}

\* the suggestion lists the endpoint of the run specification answers with
EndpointLists ==
    ListsUpTo(Suggestions({<<"a">>, <<"(">>}, {<<"b">>}), MaxVars)

\* the inner `response` strings the endpoint answers with, as the JSON
\* text they are: the empty string, text that is no JSON, or a JSON object
\* with the members it holds
InnerResponses ==
    { [text |-> "empty"], [text |-> "garbage"] }
    \cup { [text |-> "json", value |-> v] : v \in
            { [comment |-> Comment, variables |-> <<>>],
              [function_name |-> FunctionName, variables |-> <<>>],
              [function_name |-> FunctionName, comment |-> Comment],
              [function_name |-> FunctionName, comment |-> Comment,
               variables |-> << [original_name |-> <<"a">>] >>] } }
    \cup { [text |-> "json",
            value |-> [function_name |-> FunctionName, comment |-> Comment, variables |-> l]]
           : l \in EndpointLists }

\* the endpoint, as the tests of lib.rs describe it: it listens at the
\* default base URL, knows the default model, and answers an empty prompt
\* with an empty inner response
ServerUrl == OLLAMA_BASEURL \o <<"/api/generate">>
ServerModels == { OLLAMA_MODEL }

IsHttpUrl(url) ==
    url # <<>> /\ url[1] \in { "http://127.0.0.1:11434", "http://127.0.0.1:6666", "http://10.0.0.1:11434" }

\* what ureq::post(url).send_json(request) and the reading of the body can
\* come to
HttpOutcomes(url, request) ==
    IF ~IsHttpUrl(url) THEN { [kind |-> "BadUri"] }
    ELSE IF url # ServerUrl THEN { [kind |-> "ConnectionFailed"] }
    ELSE { [kind |-> "Timeout"] } \cup
         (IF request.model \notin ServerModels THEN { [kind |-> "StatusCode", code |-> 404] }
          ELSE { [kind |-> "StatusCode", code |-> 500], [kind |-> "Body", envelope |-> FALSE] }
               \cup { [kind |-> "Body", envelope |-> TRUE, response |-> r]
                      : r \in IF request.prompt = <<>> THEN { [text |-> "empty"] }
                              ELSE InnerResponses })

\* mutant of FromUreqError: the error is filed under the parse failures
FromUreqErrorAsParse(cause) == [variant |-> "ResponseParseFailed", cause |-> cause]

\* the error of OneiromancerError an error of ureq turns into: #[from] ureq::Error
FromUreqError(cause) == [variant |-> "OllamaQueryFailed", cause |-> cause]

\* the error of OneiromancerError an error of serde_json turns into
FromSerdeJsonError(cause) == [variant |-> "ResponseParseFailed", cause |-> cause]

\* OllamaRequest::send, given what the HTTP exchange came to: send_json(self)?
\* and read_json::<OllamaResponse>()? both end in a ureq::Error
SendResult(outcome) ==
    IF outcome.kind = "Body" /\ outcome.envelope
    THEN [ok |-> TRUE, value |-> [response |-> outcome.response]]
    ELSE [ok |-> FALSE,
          error |-> FromUreqError(IF outcome.kind = "Body" THEN "Json" ELSE outcome.kind)]

\* #[derive(Deserialize)] of Variable
IsVariable(v) == {"original_name", "new_name"} \subseteq DOMAIN v

\* mutant of FromStr: an empty string and missing members give an empty
\* result instead of an error
FromStrLenient(inner) ==
    IF inner.text = "garbage"
    THEN [ok |-> FALSE, error |-> "Syntax"]
    ELSE [ok |-> TRUE,
          value |-> [function_name |-> FunctionName, comment |-> Comment,
                     variables |-> <<>>]]

\* serde_json::from_str::<OneiromancerResults>, #[derive(Deserialize)]
FromStr(inner) ==
    IF inner.text = "json"
       /\ {"function_name", "comment", "variables"} \subseteq DOMAIN inner.value
       /\ \A i \in 1..Len(inner.value.variables) : IsVariable(inner.value.variables[i])
    THEN [ok |-> TRUE,
          value |-> [function_name |-> inner.value.function_name,
                     comment |-> inner.value.comment,
                     variables |-> inner.value.variables]]
    ELSE [ok |-> FALSE,
          error |-> CASE inner.text = "empty"   -> "Eof"
                      [] inner.text = "garbage" -> "Syntax"
                      [] OTHER                  -> "Data"]

\* OllamaResponse::parse
ResponseParse(resp) ==
    LET r == FromStr(resp.response)
    IN  IF r.ok THEN r ELSE [ok |-> FALSE, error |-> FromSerdeJsonError(r.error)]

----------------------------------------------------------------------------
(* run: lib.rs                                                              *)

Texts(n) == StringsUpTo(TextChars, n)

\* the input file: missing, not readable as a string, or holding a text
Files(n) ==
    { [kind |-> "missing"], [kind |-> "unreadable"] }
    \cup { [kind |-> "text", content |-> t] : t \in Texts(n) }

Absent == [exists |-> FALSE]

\* the text a file at outfilepath held before run
OldContent == [exists |-> TRUE, content |-> <<"old">>]

\* anyhow: .context(..) / .with_context(..) on the error of a step
WithContext(error, context) == [error |-> error, context |-> context]

\* format!("/*\n * {}()\n *\n{}\n */\n\n", function_name, fill(comment))
FormatDescription(results) ==
    <<"/*\n * ">> \o results.function_name \o <<"()\n *\n * ">> \o results.comment
    \o <<"\n */\n\n">>

\* File::open(filepath)
Open ==
    /\ pc = "open"
    /\ IF file.kind = "missing"
       THEN /\ err' = WithContext([variant |-> "Io"], "Failed to open")
            /\ pc' = "failed"
       ELSE /\ pc' = "read"
            /\ UNCHANGED err
    /\ UNCHANGED <<file, outfile, env, config, pseudo_code, requests, response,
                   analysis_results, function_description, todo, explicit>>

\* reader.read_to_string(&mut pseudo_code)
Read ==
    /\ pc = "read"
    /\ IF file.kind = "unreadable"
       THEN /\ err' = WithContext([variant |-> "Io"], "Failed to read")
            /\ pc' = "failed"
            /\ UNCHANGED pseudo_code
       ELSE /\ pseudo_code' = pseudo_code \o file.content
            /\ pc' = "send"
            /\ UNCHANGED err
    /\ UNCHANGED <<file, outfile, env, config, requests, response,
                   analysis_results, function_description, todo, explicit>>

\* mutant of Send: a failed request is issued a second time
SendWithRetry ==
    /\ pc = "send"
    /\ LET c       == ConfigDefault(env)
           request == OllamaRequestNew(c.model, pseudo_code)
           url     == GenerateUrl(c.baseurl)
       IN  /\ config' = c
           /\ \E outcome \in HttpOutcomes(url, request) :
                LET r == SendResult(outcome)
                IN  /\ requests' = Append(requests,
                                          [url |-> url, body |-> request, outcome |-> outcome])
                    /\ IF r.ok
                       THEN /\ response' = r.value
                            /\ pc' = "parse"
                            /\ UNCHANGED err
                       ELSE IF requests = <<>>
                       THEN UNCHANGED <<pc, err, response>>
                       ELSE /\ err' = WithContext(r.error, "Failed to analyze pseudo-code")
                            /\ pc' = "failed"
                            /\ UNCHANGED response
    /\ UNCHANGED <<file, outfile, env, pseudo_code, analysis_results,
                   function_description, todo, explicit>>

\* analyze_code(&pseudo_code, &OneiromancerConfig::default()), its first
\* half: OllamaRequest::new and request.send(config.baseurl())?
Send ==
    /\ pc = "send"
    /\ LET c       == ConfigDefault(env)
           request == OllamaRequestNew(c.model, pseudo_code)
           url     == GenerateUrl(c.baseurl)
       IN  /\ config' = c
           /\ \E outcome \in HttpOutcomes(url, request) :
                LET r == SendResult(outcome)
                IN  /\ requests' = Append(requests,
                                          [url |-> url, body |-> request, outcome |-> outcome])
                    /\ IF r.ok
                       THEN /\ response' = r.value
                            /\ pc' = "parse"
                            /\ UNCHANGED err
                       ELSE /\ err' = WithContext(r.error, "Failed to analyze pseudo-code")
                            /\ pc' = "failed"
                            /\ UNCHANGED response
    /\ UNCHANGED <<file, outfile, env, pseudo_code, analysis_results,
                   function_description, todo, explicit>>

\* mutant of Parse: the output file is created as soon as the analysis is in
ParseThenCreate ==
    /\ pc = "parse"
    /\ LET r == ResponseParse(response)
       IN  IF r.ok
           THEN /\ analysis_results' = r.value
                /\ function_description' = FormatDescription(r.value)
                /\ todo' = r.value.variables
                /\ pc' = "rename"
                /\ outfile' = IF outfile.exists THEN outfile
                              ELSE [exists |-> TRUE, content |-> <<>>]
                /\ UNCHANGED err
           ELSE /\ err' = WithContext(r.error, "Failed to analyze pseudo-code")
                /\ pc' = "failed"
                /\ UNCHANGED <<analysis_results, function_description, todo, outfile>>
    /\ UNCHANGED <<file, env, config, pseudo_code, requests, response, explicit>>

\* analyze_code, its second half: .parse(); then the function description
Parse ==
    /\ pc = "parse"
    /\ LET r == ResponseParse(response)
       IN  IF r.ok
           THEN /\ analysis_results' = r.value
                /\ function_description' = FormatDescription(r.value)
                /\ todo' = r.value.variables
                /\ pc' = "rename"
                /\ UNCHANGED err
           ELSE /\ err' = WithContext(r.error, "Failed to analyze pseudo-code")
                /\ pc' = "failed"
                /\ UNCHANGED <<analysis_results, function_description, todo>>
    /\ UNCHANGED <<file, outfile, env, config, pseudo_code, requests, response, explicit>>

\* mutant of Rename: each substitution acts on the text as it was read
RenameOnOriginal ==
    /\ pc = "rename"
    /\ todo # <<>>
    /\ LET variable == Head(todo)
           re       == RegexNew(PatternSource(variable.original_name))
       IN  IF re.ok
           THEN /\ pseudo_code' = ReplaceAll(re, file.content, variable.new_name)
                /\ todo' = Tail(todo)
                /\ UNCHANGED <<pc, err>>
           ELSE /\ err' = WithContext([variant |-> "Regex"], "Failed to compile regex")
                /\ pc' = "failed"
                /\ UNCHANGED <<pseudo_code, todo>>
    /\ UNCHANGED <<file, outfile, env, config, requests, response,
                   analysis_results, function_description, explicit>>

\* one round of `for variable in analysis_results.variables()`
Rename ==
    /\ pc = "rename"
    /\ todo # <<>>
    /\ LET variable == Head(todo)
           re       == RegexNew(PatternSource(variable.original_name))
       IN  IF re.ok
           THEN /\ pseudo_code' = ReplaceAll(re, pseudo_code, variable.new_name)
                /\ todo' = Tail(todo)
                /\ UNCHANGED <<pc, err>>
           ELSE /\ err' = WithContext([variant |-> "Regex"], "Failed to compile regex")
                /\ pc' = "failed"
                /\ UNCHANGED <<pseudo_code, todo>>
    /\ UNCHANGED <<file, outfile, env, config, requests, response,
                   analysis_results, function_description, explicit>>

\* mutant of Save: the file is opened with File::create, which truncates a
\* file that is there
SaveOverwriting ==
    /\ pc = "rename"
    /\ todo = <<>>
    /\ \E written \in BOOLEAN :
         IF written
         THEN /\ outfile' = [exists |-> TRUE,
                             content |-> function_description \o pseudo_code]
              /\ pc' = "done"
              /\ UNCHANGED err
         ELSE /\ outfile' = [exists |-> TRUE, content |-> <<>>]
              /\ err' = WithContext([variant |-> "Io"], "write")
              /\ pc' = "failed"
    /\ UNCHANGED <<file, env, config, pseudo_code, requests, response,
                   analysis_results, function_description, todo, explicit>>

\* File::create_new(&outfilepath), write_all, write_all, flush
Save ==
    /\ pc = "rename"
    /\ todo = <<>>
    /\ IF outfile.exists
       THEN /\ err' = WithContext([variant |-> "Io"], "Failed to create")
            /\ pc' = "failed"
            /\ UNCHANGED outfile
       ELSE \E written \in BOOLEAN :
              IF written
              THEN /\ outfile' = [exists |-> TRUE,
                                  content |-> function_description \o pseudo_code]
                   /\ pc' = "done"
                   /\ UNCHANGED err
              ELSE /\ outfile' = [exists |-> TRUE, content |-> <<>>]
                   /\ err' = WithContext([variant |-> "Io"], "write")
                   /\ pc' = "failed"
    /\ UNCHANGED <<file, env, config, pseudo_code, requests, response,
                   analysis_results, function_description, todo, explicit>>

NoExplicit == [baseurl |-> Unset, model |-> Unset]

Init ==
    /\ pc = "open"
    /\ file \in Files(MaxFile)
    /\ outfile \in { Absent, OldContent }
    /\ env \in [OLLAMA_BASEURL : EnvBaseurls, OLLAMA_MODEL : EnvModels]
    /\ config = NoValue
    /\ pseudo_code = <<>>
    /\ requests = <<>>
    /\ response = NoValue
    /\ analysis_results = NoValue
    /\ function_description = <<>>
    /\ todo = <<>>
    /\ err = NoValue
    /\ explicit = NoExplicit

Next == Open \/ Read \/ Send \/ Parse \/ Rename \/ Save

Spec == Init /\ [][Next]_vars

----------------------------------------------------------------------------
(* The renaming loop of run on its own, over more texts and suggestions     *)

RewriteLists == ListsUpTo(Suggestions(OriginalNames, NewNames), MaxVars)

InitRewrite ==
    /\ pc = "rename"
    /\ \E t \in Texts(MaxText) :
         /\ file = [kind |-> "text", content |-> t]
         /\ pseudo_code = t
    /\ \E l \in RewriteLists :
         /\ analysis_results =
              [function_name |-> FunctionName, comment |-> Comment, variables |-> l]
         /\ todo = l
    /\ outfile = Absent
    /\ env = [OLLAMA_BASEURL |-> Unset, OLLAMA_MODEL |-> Unset]
    /\ config = ConfigDefault(env)
    /\ requests = <<>>
    /\ response = NoValue
    /\ function_description = <<>>
    /\ err = NoValue
    /\ explicit = NoExplicit

NextRewrite == Rename

SpecRewrite == InitRewrite /\ [][NextRewrite]_vars

----------------------------------------------------------------------------
(* The configuration on its own: a caller building an OneiromancerConfig,   *)
(* the command line being parsed                                            *)

\* OneiromancerConfig::new() / OneiromancerConfig::default()
ConfigNew ==
    /\ pc = "config"
    /\ config' = ConfigDefault(env)
    /\ explicit' = NoExplicit
    /\ UNCHANGED <<pc, file, outfile, env, pseudo_code, requests, response,
                   analysis_results, function_description, todo, err>>

\* config.with_baseurl(baseurl)
WithBaseurl ==
    /\ pc = "config"
    /\ config # NoValue
    /\ \E baseurl \in ExplicitBaseurls :
         /\ config' = ConfigWithBaseurl(config, baseurl)
         /\ explicit' = [explicit EXCEPT !.baseurl = baseurl]
    /\ UNCHANGED <<pc, file, outfile, env, pseudo_code, requests, response,
                   analysis_results, function_description, todo, err>>

\* config.with_model(model)
WithModel ==
    /\ pc = "config"
    /\ config # NoValue
    /\ \E model \in ExplicitModels :
         /\ config' = ConfigWithModel(config, model)
         /\ explicit' = [explicit EXCEPT !.model = model]
    /\ UNCHANGED <<pc, file, outfile, env, pseudo_code, requests, response,
                   analysis_results, function_description, todo, err>>

\* Args::parse() with or without --base-url and --model
CliParse ==
    /\ pc = "config"
    /\ \E base_url \in ExplicitBaseurls \cup {Unset}, model \in ExplicitModels \cup {Unset} :
         /\ config' = ArgsParse(env, base_url, model)
         /\ explicit' = [baseurl |-> base_url, model |-> model]
    /\ UNCHANGED <<pc, file, outfile, env, pseudo_code, requests, response,
                   analysis_results, function_description, todo, err>>

InitConfig ==
    /\ pc = "config"
    /\ env \in [OLLAMA_BASEURL : EnvBaseurls, OLLAMA_MODEL : EnvModels]
    /\ config = NoValue
    /\ explicit = NoExplicit
    /\ file = [kind |-> "missing"]
    /\ outfile = Absent
    /\ pseudo_code = <<>>
    /\ requests = <<>>
    /\ response = NoValue
    /\ analysis_results = NoValue
    /\ function_description = <<>>
    /\ todo = <<>>
    /\ err = NoValue

NextConfig == ConfigNew \/ WithBaseurl \/ WithModel \/ CliParse

SpecConfig == InitConfig /\ [][NextConfig]_vars

----------------------------------------------------------------------------
(* Notions the properties are stated in                                     *)

\* the rounds of the renaming loop done so far
Applied == Len(analysis_results.variables) - Len(todo)

\* a non-empty string of letters, digits and underscores
IsIdentifier(name) == name # <<>> /\ \A i \in 1..Len(name) : IsWordChar(name[i])

\* name occurs in text at offset p
OccursAt(text, name, p) ==
    p + Len(name) <= Len(text) /\ SubSeq(text, p + 1, p + Len(name)) = name

\* the stretch of n characters at offset p of text touches an
\* identifier-constituent character on one side at least
AdjacentToWord(text, p, n) ==
    \/ p > 0 /\ IsWordChar(text[p])
    \/ p + n < Len(text) /\ IsWordChar(text[p + n + 1])

\* length of the run of identifier-constituent characters at the head of s
RECURSIVE WordLen(_)
WordLen(s) == IF s # <<>> /\ IsWordChar(Head(s)) THEN 1 + WordLen(Tail(s)) ELSE 0

\* text with each of its words (maximal runs of identifier-constituent
\* characters) that is one of names replaced by new, all else kept
RECURSIVE RenameWords(_, _, _)
RenameWords(text, names, new) ==
    IF text = <<>> THEN <<>>
    ELSE LET n == WordLen(text) IN
         IF n = 0 THEN <<Head(text)>> \o RenameWords(Tail(text), names, new)
         ELSE (IF SubSeq(text, 1, n) \in names THEN new ELSE SubSeq(text, 1, n))
              \o RenameWords(SubSeq(text, n + 1, Len(text)), names, new)

\* the suggestions of list applied one after the other, each to the text
\* the one before it left
RECURSIVE RewriteFold(_, _)
RewriteFold(text, list) ==
    IF list = <<>> THEN text
    ELSE RewriteFold(ReplaceAll(RegexNew(PatternSource(Head(list).original_name)),
                                text, Head(list).new_name),
                     Tail(list))

HasDollar(name) == \E i \in 1..Len(name) : name[i] = "$"

\* the list is [a -> b, b -> c] with identifiers a and b and a plain c
IsChain(list) ==
    /\ Len(list) = 2
    /\ list[1].new_name = list[2].original_name
    /\ IsIdentifier(list[1].original_name)
    /\ IsIdentifier(list[2].original_name)
    /\ ~HasDollar(list[2].new_name)

\* occurrence of name at offset p of text and the matches found in text:
\* the occurrence is one of the matches / a match covers part of it
IsReplaced(spans, p, n) == \E k \in 1..Len(spans) : spans[k] = [start |-> p, end |-> p + n]
IsTouched(spans, p, n) ==
    \E k \in 1..Len(spans) :
        \/ spans[k] = [start |-> p, end |-> p + n]
        \/ spans[k].start < p + n /\ spans[k].end > p

\* whole-word matching of name in text, given the matches found
WholeWordMatching(text, name, spans) ==
    \A p \in 0..Len(text) :
        OccursAt(text, name, p) =>
            IF AdjacentToWord(text, p, Len(name))
            THEN ~IsTouched(spans, p, Len(name))
            ELSE IsReplaced(spans, p, Len(name))

----------------------------------------------------------------------------
(* Properties of the renaming loop, checked under SpecRewrite               *)

\* C1: the suggestions are applied in the order supplied, each to the text
\* the one before it left: after k rounds the text is the left fold of the
\* first k suggestions over the text read, and after the list
\* [a -> b, b -> c] every word of the text read that was a or b is c.
C1_SequentialOrder ==
    pc = "rename" =>
        /\ pseudo_code =
             RewriteFold(file.content, SubSeq(analysis_results.variables, 1, Applied))
        /\ (Applied = 2 /\ IsChain(analysis_results.variables)) =>
             pseudo_code =
                RenameWords(file.content,
                            { analysis_results.variables[1].original_name,
                              analysis_results.variables[2].original_name },
                            analysis_results.variables[2].new_name)

\* C1 witness: the list [a -> b, b -> c] has been applied to a text with a
\* whole-word a, and in the text now c is a word and neither a nor b is
C1_Witness ==
    /\ pc = "rename" /\ Applied = 2 /\ IsChain(analysis_results.variables)
    /\ LET a == analysis_results.variables[1].original_name
           b == analysis_results.variables[2].original_name
           c == analysis_results.variables[2].new_name
       IN  /\ a # b /\ c # a /\ c # b
           /\ \E p \in 0..Len(file.content) :
                OccursAt(file.content, a, p) /\ ~AdjacentToWord(file.content, p, Len(a))
           /\ \E p \in 0..Len(pseudo_code) :
                OccursAt(pseudo_code, c, p) /\ ~AdjacentToWord(pseudo_code, p, Len(c))
           /\ \A p \in 0..Len(pseudo_code) : \A n \in {a, b} :
                ~(OccursAt(pseudo_code, n, p) /\ ~AdjacentToWord(pseudo_code, p, Len(n)))

\* C2 as claimed: for every suggestion and every text, a round of the loop
\* replaces no occurrence of original_name that touches an
\* identifier-constituent character and every occurrence that touches none.
C2_WholeWordEveryName ==
    [][(pc = "rename" /\ todo # <<>> /\ pc' = "rename") =>
         WholeWordMatching(pseudo_code, Head(todo).original_name,
                           FindIter(RegexNew(PatternSource(Head(todo).original_name)),
                                    pseudo_code))]_vars

\* C2 as amended: when original_name is an identifier (a non-empty string
\* of identifier-constituent characters), a round of the loop replaces no
\* occurrence of it that touches an identifier-constituent character and
\* every occurrence that touches none: the text after the round is the text
\* before it with the words equal to original_name replaced.
C2_WholeWordIdentifier ==
    [][(pc = "rename" /\ todo # <<>> /\ IsIdentifier(Head(todo).original_name)) =>
         /\ pc' = "rename"
         /\ WholeWordMatching(pseudo_code, Head(todo).original_name,
                              FindIter(RegexNew(PatternSource(Head(todo).original_name)),
                                       pseudo_code))
         /\ pseudo_code' =
              RenameWords(pseudo_code, { Head(todo).original_name },
                          Expand(Head(todo).new_name, Head(todo).original_name))]_vars

\* C2 witness: a round with an identifier as original_name has run on a
\* text holding the name as a word of its own and inside a longer word; the
\* first is replaced, the second is kept
C2_Witness ==
    /\ pc = "rename" /\ Applied >= 1
    /\ LET name == analysis_results.variables[Applied].original_name
           new  == analysis_results.variables[Applied].new_name
           text == RewriteFold(file.content,
                               SubSeq(analysis_results.variables, 1, Applied - 1))
       IN  /\ IsIdentifier(name)
           /\ IsIdentifier(new)
           /\ \E p, q \in 0..Len(text) :
                /\ OccursAt(text, name, p) /\ ~AdjacentToWord(text, p, Len(name))
                /\ OccursAt(text, name, q) /\ AdjacentToWord(text, q, Len(name))
           /\ pseudo_code = RenameWords(text, {name}, new)
           /\ pseudo_code # text

\* the pattern Regex::new would build from the escaped name: every
\* character of the name stands for itself
LiteralRegex(name) ==
    [ok |-> TRUE,
     items |-> <<[kind |-> "WordBoundary"]>>
               \o [i \in 1..Len(name) |-> [kind |-> "Literal", c |-> name[i]]]
               \o <<[kind |-> "WordBoundary"]>>]

\* C3: original_name is literal text: a round of the loop replaces the
\* whole-word occurrences of that exact string, found as the name escaped
\* would find them, and nothing else.
C3_LiteralName ==
    [][(pc = "rename" /\ todo # <<>> /\ pc' = "rename") =>
         /\ \A k \in 1..Len(FindIter(RegexNew(PatternSource(Head(todo).original_name)),
                                     pseudo_code)) :
              LET span == FindIter(RegexNew(PatternSource(Head(todo).original_name)),
                                   pseudo_code)[k]
              IN  SubSeq(pseudo_code, span.start + 1, span.end) = Head(todo).original_name
         /\ pseudo_code' =
              ReplaceAll(LiteralRegex(Head(todo).original_name), pseudo_code,
                         Head(todo).new_name)]_vars

\* out is text from offset p on with some occurrences of name given way to
\* other strings, every other character carried over in its place
RECURSIVE CarriedOver(_, _, _, _)
CarriedOver(text, p, name, out) ==
    \/ p = Len(text) /\ out = <<>>
    \/ /\ p < Len(text) /\ out # <<>> /\ Head(out) = text[p + 1]
       /\ CarriedOver(text, p + 1, name, Tail(out))
    \/ /\ name # <<>> /\ OccursAt(text, name, p)
       /\ \E j \in 0..Len(out) :
            CarriedOver(text, p + Len(name), name, SubSeq(out, j + 1, Len(out)))

\* C12: a round of the loop changes nothing but occurrences of that round's
\* original_name (the whole-word occurrences are among them): every other
\* character of the text is carried over, in the same order; before the
\* first round, and so after an empty list, the text is the text read.
C12_OnlyOccurrencesChange ==
    [][/\ (pc = "rename" /\ Applied = 0) => pseudo_code = file.content
       /\ (pc = "rename" /\ todo # <<>> /\ pc' = "rename") =>
            CarriedOver(pseudo_code, 0, Head(todo).original_name, pseudo_code')]_vars

\* text with each of the matches given way to new, as it is written
RECURSIVE SpliceLiteral(_, _, _, _, _)
SpliceLiteral(text, spans, k, last_match, new) ==
    IF k > Len(spans) THEN SubSeq(text, last_match + 1, Len(text))
    ELSE SubSeq(text, last_match + 1, spans[k].start) \o new
         \o SpliceLiteral(text, spans, k + 1, spans[k].end, new)

\* C13: new_name is inserted character for character, whatever characters
\* it holds: the text after a round is the text before it with every
\* stretch the round replaces given way to exactly the new_name string.
C13_NewNameVerbatim ==
    [][(pc = "rename" /\ todo # <<>> /\ pc' = "rename") =>
         pseudo_code' =
            SpliceLiteral(pseudo_code,
                          FindIter(RegexNew(PatternSource(Head(todo).original_name)),
                                   pseudo_code),
                          1, 0, Head(todo).new_name)]_vars

\* C4: the renaming loop never ends in a pattern-compile failure, whatever
\* the original_name: it never stops with a suggestion left to apply.
C4_NoPatternFailure ==
    ~(pc = "failed" /\ err.context = "Failed to compile regex" /\ todo # <<>>)

----------------------------------------------------------------------------
(* Properties of analyze_code and run, checked under Spec                   *)

\* the request has been sent and its outcome is known
Sent == pc \notin {"open", "read", "send"} /\ requests # <<>>

\* the variant of OneiromancerError that analyze_code returned
FailedWith(variant) ==
    /\ pc = "failed"
    /\ err.context = "Failed to analyze pseudo-code"
    /\ err.error.variant = variant

\* C5: when the request obtains no successful HTTP response (the base URL
\* is a closed port, empty or malformed, the connection fails, the status
\* is no success, the model is unknown), analyze_code fails with
\* OllamaQueryFailed and never with ResponseParseFailed.
C5_QueryFailure ==
    Sent =>
        /\ requests[1].outcome.kind # "Body" => FailedWith("OllamaQueryFailed")
        /\ config.baseurl \in { <<"http://127.0.0.1:6666">>, <<>>, <<"not a url">> }
             => FailedWith("OllamaQueryFailed")
        /\ config.model \notin ServerModels => FailedWith("OllamaQueryFailed")

\* C5 witness: the request to the closed port 6666 has failed with
\* OllamaQueryFailed
C5_Witness ==
    /\ Sent
    /\ config.baseurl = <<"http://127.0.0.1:6666">>
    /\ requests[1].outcome.kind = "ConnectionFailed"
    /\ FailedWith("OllamaQueryFailed")

\* the inner response is not the JSON of an OneiromancerResults
IsMalformed(inner) ==
    \/ inner.text \in {"empty", "garbage"}
    \/ "function_name" \notin DOMAIN inner.value
    \/ "comment" \notin DOMAIN inner.value
    \/ "variables" \notin DOMAIN inner.value
    \/ \E i \in 1..Len(inner.value.variables) :
         \/ "original_name" \notin DOMAIN inner.value.variables[i]
         \/ "new_name" \notin DOMAIN inner.value.variables[i]

\* C6: when the endpoint answers with an envelope whose inner response is
\* not the JSON of a result (no JSON, a member missing, or the empty string
\* it returns for an empty prompt), analyze_code fails with
\* ResponseParseFailed and returns no result.
C6_ParseFailure ==
    (Sent /\ pc # "parse" /\ requests[1].outcome.kind = "Body"
          /\ requests[1].outcome.envelope) =>
        /\ IsMalformed(response.response) =>
             FailedWith("ResponseParseFailed") /\ analysis_results = NoValue
        /\ requests[1].body.prompt = <<>> =>
             FailedWith("ResponseParseFailed") /\ analysis_results = NoValue

\* C6 witness: the empty file has been sent, the endpoint has answered with
\* an empty inner response, and analyze_code has failed with
\* ResponseParseFailed
C6_Witness ==
    /\ Sent
    /\ file.kind = "text" /\ file.content = <<>>
    /\ requests[1].outcome.kind = "Body"
    /\ requests[1].outcome.envelope
    /\ response.response = [text |-> "empty"]
    /\ FailedWith("ResponseParseFailed")
    /\ analysis_results = NoValue

\* C7: when the HTTP call succeeds and the body is no envelope
\* {"response": <string>}, the failure is a parse failure
\* (ResponseParseFailed), not a query failure.
C7_EnvelopeParseFailure ==
    (Sent /\ requests[1].outcome.kind = "Body" /\ ~requests[1].outcome.envelope) =>
        FailedWith("ResponseParseFailed")

\* C8: every analyze_code issues exactly one request, whatever comes of it:
\* none before send, one from send on, and a failure of send or parse ends
\* the call with that one request issued.
C8_SingleRequest ==
    /\ Len(requests) <= 1
    /\ pc \in {"open", "read", "send"} => requests = <<>>
    /\ pc \in {"parse", "rename", "done"} => Len(requests) = 1
    /\ (pc = "failed" /\ err.context = "Failed to analyze pseudo-code") =>
         Len(requests) = 1

\* C8 witness: analyze_code has failed, in send or in parse, after one
\* request
C8_Witness ==
    /\ Len(requests) = 1
    /\ \/ FailedWith("OllamaQueryFailed")
       \/ FailedWith("ResponseParseFailed")

\* C10: the output file is created only when the analysis and the whole
\* renaming loop have succeeded: up to the end of the loop, and after run
\* has failed to open or read the input, to query, to parse or to compile a
\* pattern, there is no output file that was not there before.
C10_NoOutputOnFailure ==
    /\ pc \in {"open", "read", "send", "parse", "rename"} =>
         outfile \in {Absent, OldContent}
    /\ (pc = "failed" /\ err.context \in { "Failed to open", "Failed to read",
                                           "Failed to analyze pseudo-code",
                                           "Failed to compile regex" }) =>
         outfile \in {Absent, OldContent}

\* C10 witness: run has renamed one variable and failed on the pattern of
\* the next, and there is no output file
C10_Witness ==
    /\ pc = "failed"
    /\ err.context = "Failed to compile regex"
    /\ Applied = 1
    /\ pseudo_code # file.content
    /\ outfile = Absent

\* C11: run never overwrites an output file: when a file is at outfilepath
\* as run comes to save, run fails there and the file is as it was; no step
\* of run changes a file that is at outfilepath.
C11_NeverOverwrites ==
    [][outfile.exists =>
         /\ outfile' = outfile
         /\ (pc = "rename" /\ todo = <<>>) =>
              pc' = "failed" /\ err'.context = "Failed to create"]_vars

\* C11 witness: the analysis and the renaming have succeeded, a file was at
\* outfilepath, run has failed to create it and the file holds what it held
C11_Witness ==
    /\ pc = "failed"
    /\ err.context = "Failed to create"
    /\ analysis_results # NoValue
    /\ todo = <<>>
    /\ outfile = OldContent

----------------------------------------------------------------------------
(* Properties of the configuration, checked under SpecConfig                *)

\* the value a field of the configuration resolves to
Resolved(given, variable, default) ==
    IF given # Unset THEN given
    ELSE IF variable # Unset THEN variable
    ELSE default

\* C9: for the base URL and for the model, each on its own, the value given
\* explicitly (with_baseurl / with_model, or the command line) goes before
\* the environment variable, which goes before the built-in default
\* ("http://127.0.0.1:11434", "aidapal").
C9_Precedence ==
    config # NoValue =>
        /\ config.baseurl =
             Resolved(explicit.baseurl, env.OLLAMA_BASEURL, <<"http://127.0.0.1:11434">>)
        /\ config.model =
             Resolved(explicit.model, env.OLLAMA_MODEL, <<"aidapal">>)

\* C9 witness: both environment variables are set, the base URL alone has
\* been given explicitly: the base URL is the one given, the model is the
\* one of the environment
C9_Witness ==
    /\ config # NoValue
    /\ env.OLLAMA_BASEURL # Unset /\ env.OLLAMA_MODEL # Unset
    /\ explicit.baseurl # Unset /\ explicit.model = Unset
    /\ explicit.baseurl # env.OLLAMA_BASEURL
    /\ config.baseurl = explicit.baseurl
    /\ config.model = env.OLLAMA_MODEL

====
